---------------------------- MODULE Spec2Model ----------------------------
(***************************************************************************)
(* A model of scripts/ui_audit.py: the AuditParser walk over the parse     *)
(* events of one HTML document, the rule battery of audit(), and main()'s  *)
(* read / audit / print sequence.                                          *)
(*                                                                         *)
(* A document is the sequence of events html.parser hands to the three     *)
(* handlers.  Every markup token sits on a line of its own, so the event   *)
(* number i is the source line of the token and its column is 0.           *)
(* Attribute values and text are sequences of one-character strings, so    *)
(* that strip(), lower(), split() and startswith() are computed.           *)
(***************************************************************************)
EXTENDS Integers, Sequences, FiniteSets

VARIABLES
    pc,                 \* position in main(): read, feed, rules, print, exit
    doc,                \* the parse events handled so far
    stack,              \* AuditParser.stack
    has_html, html_lang, has_title, title_text, has_meta_viewport, has_main,
    ids, duplicate_ids, labels_for,
    heading_levels,
    current_link, links, current_button, buttons,
    inputs, images,
    issues,             \* the list audit() returns
    output,             \* what main() prints
    exit_code           \* what main() returns

facts == <<has_html, html_lang, has_title, title_text, has_meta_viewport,
           has_main, ids, duplicate_ids, labels_for, heading_levels,
           links, buttons, inputs, images>>
walker == <<stack, current_link, current_button>>
vars == <<pc, doc, stack, has_html, html_lang, has_title, title_text,
          has_meta_viewport, has_main, ids, duplicate_ids, labels_for,
          heading_levels, current_link, links, current_button, buttons,
          inputs, images, issues, output, exit_code>>

\* The longest document (number of parse events) explored, and the longest
\* one over the wide alphabet AllStarts, AllEnds, AllTexts.
MaxEvents == 4
MaxWalk == 3

-----------------------------------------------------------------------------
(* Optional values: None is the empty sequence, Some(x) a one-element one. *)
None == <<>>
Some(x) == <<x>>
IsNone(o) == o = <<>>
IsSome(o) == o # <<>>
Val(o) == o[1]

-----------------------------------------------------------------------------
(* Strings as sequences of characters.                                     *)
IsSpace(c) == c \in {" ", "\t", "\n"}

RECURSIVE LStrip(_)
LStrip(s) == IF s # <<>> /\ IsSpace(Head(s)) THEN LStrip(Tail(s)) ELSE s

RECURSIVE RStrip(_)
RStrip(s) ==
    IF s # <<>> /\ IsSpace(s[Len(s)]) THEN RStrip(SubSeq(s, 1, Len(s) - 1)) ELSE s

\* str.strip()
Strip(s) == RStrip(LStrip(s))

UpperChars == <<"A", "B", "C", "D", "E", "F", "G", "H", "I", "J", "K", "L", "M",
                "N", "O", "P", "Q", "R", "S", "T", "U", "V", "W", "X", "Y", "Z">>
LowerChars == <<"a", "b", "c", "d", "e", "f", "g", "h", "i", "j", "k", "l", "m",
                "n", "o", "p", "q", "r", "s", "t", "u", "v", "w", "x", "y", "z">>

LowerChar(c) ==
    IF \E i \in 1..Len(UpperChars) : UpperChars[i] = c
    THEN LowerChars[CHOOSE i \in 1..Len(UpperChars) : UpperChars[i] = c]
    ELSE c

\* str.lower()
Lower(s) == [i \in 1..Len(s) |-> LowerChar(s[i])]

\* str.startswith(pre)
StartsWith(s, pre) == Len(s) >= Len(pre) /\ SubSeq(s, 1, Len(pre)) = pre

\* sub in s
Contains(s, sub) ==
    \E i \in 0..(Len(s) - Len(sub)) : SubSeq(s, i + 1, i + Len(sub)) = sub

\* str.split(): the maximal runs of non-whitespace characters, in order
RECURSIVE Split(_)
Split(s) ==
    LET t == LStrip(s) IN
    IF t = <<>> THEN <<>>
    ELSE LET n == IF \E i \in 1..Len(t) : IsSpace(t[i])
                  THEN (CHOOSE i \in 1..Len(t) :
                            IsSpace(t[i]) /\ \A j \in 1..(i - 1) : ~IsSpace(t[j])) - 1
                  ELSE Len(t)
         IN <<SubSeq(t, 1, n)>> \o Split(SubSeq(t, n + 1, Len(t)))

\* " ".join(words)
RECURSIVE Join(_)
Join(words) ==
    IF words = <<>> THEN <<>>
    ELSE IF Len(words) = 1 THEN words[1]
    ELSE words[1] \o <<" ">> \o Join(Tail(words))

\* _discernible_text
DiscernibleText(text) == Strip(Join(Split(text)))

\* str(n) for n >= 0
DigitChars == <<"0", "1", "2", "3", "4", "5", "6", "7", "8", "9">>
RECURSIVE Digits(_)
Digits(n) ==
    IF n < 10 THEN <<DigitChars[n + 1]>>
    ELSE Digits(n \div 10) \o <<DigitChars[(n % 10) + 1]>>

-----------------------------------------------------------------------------
(* Attribute maps.  An open-tag event carries a list of <<name, value>>    *)
(* pairs, the value None for a valueless attribute.                        *)

\* a = {k.lower(): (v if v is not None else "") for k, v in attrs}
RECURSIVE AttrMap(_)
AttrMap(attrs) ==
    IF attrs = <<>> THEN <<>>
    ELSE LET rest == AttrMap(SubSeq(attrs, 1, Len(attrs) - 1))
             kv   == attrs[Len(attrs)]
             v    == IF IsNone(kv[2]) THEN <<>> ELSE Val(kv[2])
         IN [k \in (DOMAIN rest) \cup {kv[1]} |->
                IF k = kv[1] THEN v ELSE rest[k]]

\* a.get(k) or ""
Get(a, k) == IF k \in DOMAIN a THEN a[k] ELSE <<>>

Loc(line) == <<line, 0>>


-----------------------------------------------------------------------------
(* Parse events.                                                           *)
StartEv(tag, attrs) == [kind |-> "start", tag |-> tag, attrs |-> attrs, data |-> <<>>]
EndEv(tag) == [kind |-> "end", tag |-> tag, attrs |-> <<>>, data |-> <<>>]
DataEv(data) == [kind |-> "data", tag |-> "", attrs |-> <<>>, data |-> data]

HeadingTags == <<"h1", "h2", "h3", "h4", "h5", "h6">>
IsHeading(tag) == \E i \in 1..Len(HeadingTags) : HeadingTags[i] = tag
\* int(tag[1])
HeadingLevel(tag) == CHOOSE i \in 1..Len(HeadingTags) : HeadingTags[i] = tag

FormControls == {"input", "select", "textarea"}

\* any(t == tag for t, *_ in frames)
OnStack(frames, tag) == \E i \in 1..Len(frames) : frames[i][1] = tag

-----------------------------------------------------------------------------
(* AuditParser.handle_starttag, section by section.                        *)

\* variant: (a.get("lang") or "").strip() or None, a blank lang taken as none
HtmlLangOfTrimmed(a) ==
    IF Strip(Get(a, "lang")) # <<>> THEN Some(Strip(Get(a, "lang"))) ELSE None

\* self.html_lang = a.get("lang") or None
HtmlLangOf(a) == IF Get(a, "lang") # <<>> THEN Some(Get(a, "lang")) ELSE None

\* (a.get("name") or "").lower() == "viewport"
IsViewportMeta(a) == Lower(Get(a, "name")) = <<"v", "i", "e", "w", "p", "o", "r", "t">>

\* "id" in a and a["id"].strip()
HasId(a) == "id" \in DOMAIN a /\ Strip(a["id"]) # <<>>

IdsAfter(m, a, line) ==
    IF HasId(a) /\ Strip(a["id"]) \notin DOMAIN m
    THEN [k \in (DOMAIN m) \cup {Strip(a["id"])} |->
            IF k = Strip(a["id"]) THEN Loc(line) ELSE m[k]]
    ELSE m

\* variant: an id is listed as a duplicate once only
DuplicateIdsAfterOnce(dups, m, a, line) ==
    IF /\ HasId(a)
       /\ Strip(a["id"]) \in DOMAIN m
       /\ \A k \in 1..Len(dups) : dups[k][1] # Strip(a["id"])
    THEN Append(dups, <<Strip(a["id"]), line, 0>>)
    ELSE dups

DuplicateIdsAfter(dups, m, a, line) ==
    IF HasId(a) /\ Strip(a["id"]) \in DOMAIN m
    THEN Append(dups, <<Strip(a["id"]), line, 0>>)
    ELSE dups

LabelsForAfter(m, tag, a, line) ==
    IF tag = "label" /\ Strip(Get(a, "for")) # <<>>
    THEN [k \in (DOMAIN m) \cup {Strip(Get(a, "for"))} |->
            IF k = Strip(Get(a, "for")) THEN Loc(line) ELSE m[k]]
    ELSE m

HeadingsAfter(hs, tag, line) ==
    IF IsHeading(tag) THEN Append(hs, <<HeadingLevel(tag), line, 0>>) ELSE hs

\* variant: self.images = [...] in place of self.images.append(...)
ImagesAfterLatestOnly(imgs, tag, a, line) ==
    IF tag = "img" THEN <<[attrs |-> a, line |-> line, col |-> 0]>> ELSE imgs

ImagesAfter(imgs, tag, a, line) ==
    IF tag = "img" THEN Append(imgs, [attrs |-> a, line |-> line, col |-> 0]) ELSE imgs

\* variant: a pending link is kept when another <a> opens
CurrentLinkKeepOuter(cur, tag, a, line) ==
    IF tag = "a" /\ IsNone(cur)
    THEN Some([attrs |-> a, text |-> <<>>, line |-> line, col |-> 0])
    ELSE cur

CurrentLinkAfterOpen(cur, tag, a, line) ==
    IF tag = "a"
    THEN Some([attrs |-> a, text |-> <<>>, line |-> line, col |-> 0])
    ELSE cur

CurrentButtonAfterOpen(cur, frames, tag, a, line) ==
    IF tag = "button"
    THEN Some([attrs |-> a, text |-> <<>>, line |-> line, col |-> 0,
               in_form |-> OnStack(frames, "form")])
    ELSE cur

InputsAfter(inps, frames, tag, a, line) ==
    IF tag \in FormControls
    THEN Append(inps, [tag |-> tag, attrs |-> a, line |-> line, col |-> 0,
                       implicit_label |-> OnStack(frames, "label"),
                       in_form |-> OnStack(frames, "form")])
    ELSE inps

handle_starttag(tag, attrs) ==
    LET line == Len(doc) + 1
        a    == AttrMap(attrs)
    IN /\ pc = "feed"
       /\ doc' = Append(doc, StartEv(tag, attrs))
       /\ stack' = Append(stack, <<tag, a, line, 0>>)
       /\ has_html' = (has_html \/ tag = "html")
       /\ html_lang' = IF tag = "html" THEN HtmlLangOf(a) ELSE html_lang
       /\ has_meta_viewport' = (has_meta_viewport \/ (tag = "meta" /\ IsViewportMeta(a)))
       /\ has_main' = (has_main \/ tag = "main")
       /\ ids' = IdsAfter(ids, a, line)
       /\ duplicate_ids' = DuplicateIdsAfter(duplicate_ids, ids, a, line)
       /\ labels_for' = LabelsForAfter(labels_for, tag, a, line)
       /\ heading_levels' = HeadingsAfter(heading_levels, tag, line)
       /\ images' = ImagesAfter(images, tag, a, line)
       /\ current_link' = CurrentLinkAfterOpen(current_link, tag, a, line)
       /\ current_button' = CurrentButtonAfterOpen(current_button, stack, tag, a, line)
       /\ inputs' = InputsAfter(inputs, stack, tag, a, line)
       /\ UNCHANGED <<pc, has_title, title_text, links, buttons, issues, output,
                      exit_code>>

-----------------------------------------------------------------------------
(* AuditParser.handle_endtag                                               *)

LinksAfterClose(ls, cur, tag) ==
    IF tag = "a" /\ IsSome(cur) THEN Append(ls, Val(cur)) ELSE ls

CurrentLinkAfterClose(cur, tag) ==
    IF tag = "a" /\ IsSome(cur) THEN None ELSE cur

ButtonsAfterClose(bs, cur, tag) ==
    IF tag = "button" /\ IsSome(cur) THEN Append(bs, Val(cur)) ELSE bs

CurrentButtonAfterClose(cur, tag) ==
    IF tag = "button" /\ IsSome(cur) THEN None ELSE cur

\* variant: only a matching top frame is popped
PopStackTopOnly(frames, tag) ==
    IF frames # <<>> /\ frames[Len(frames)][1] = tag
    THEN SubSeq(frames, 1, Len(frames) - 1)
    ELSE frames

\* for i in range(len(self.stack) - 1, -1, -1): if self.stack[i][0] == tag: ...
PopStack(frames, tag) ==
    IF OnStack(frames, tag)
    THEN LET i == CHOOSE k \in 1..Len(frames) :
                      /\ frames[k][1] = tag
                      /\ \A j \in (k + 1)..Len(frames) : frames[j][1] # tag
         IN SubSeq(frames, 1, i - 1)
    ELSE frames

handle_endtag(tag) ==
    /\ pc = "feed"
    /\ doc' = Append(doc, EndEv(tag))
    /\ links' = LinksAfterClose(links, current_link, tag)
    /\ current_link' = CurrentLinkAfterClose(current_link, tag)
    /\ buttons' = ButtonsAfterClose(buttons, current_button, tag)
    /\ current_button' = CurrentButtonAfterClose(current_button, tag)
    /\ stack' = PopStack(stack, tag)
    /\ UNCHANGED <<pc, has_html, html_lang, has_title, title_text, has_meta_viewport,
                   has_main, ids, duplicate_ids, labels_for, heading_levels,
                   inputs, images, issues, output, exit_code>>

-----------------------------------------------------------------------------
(* AuditParser.handle_data                                                 *)

InTitle(frames) == frames # <<>> /\ frames[Len(frames)][1] = "title"

\* self.current_link["text"] += " " + text
PendingTextAfter(cur, text) ==
    IF IsSome(cur) /\ text # <<>>
    THEN Some([Val(cur) EXCEPT !.text = @ \o <<" ">> \o text])
    ELSE cur

handle_data(data) ==
    LET text == Strip(data) IN
    /\ pc = "feed"
    /\ doc' = Append(doc, DataEv(data))
    /\ has_title' = (has_title \/ (text # <<>> /\ InTitle(stack)))
    /\ title_text' = IF text # <<>> /\ InTitle(stack) THEN title_text \o text ELSE title_text
    /\ current_link' = PendingTextAfter(current_link, text)
    /\ current_button' = PendingTextAfter(current_button, text)
    /\ UNCHANGED <<pc, stack, has_html, html_lang, has_meta_viewport, has_main, ids,
                   duplicate_ids, labels_for, heading_levels, links, buttons,
                   inputs, images, issues, output, exit_code>>

-----------------------------------------------------------------------------
(* Findings.  message is the f-string: its text with {} for each           *)
(* replacement field, and the values substituted; element is the empty     *)
(* sequence for None.                                                      *)
Issue(sev, cat, tpl, arg, hint, line, col, element) ==
    [severity |-> sev, category |-> cat, message |-> [tpl |-> tpl, arg |-> arg],
     hint |-> hint, line |-> line, col |-> col, element |-> element]

\* [f(xs[1]), f(xs[2]), ...] flattened
RECURSIVE FlatMap(_, _)
FlatMap(F(_), xs) == IF xs = <<>> THEN <<>> ELSE F(Head(xs)) \o FlatMap(F, Tail(xs))

\* the except branch of audit()
ParseFailure ==
    Issue("high", "structure", "Failed to parse HTML: {}", <<>>,
          "Check for malformed markup; try validating the HTML.", None, None, <<>>)

RuleHtml ==
    IF ~has_html
    THEN <<Issue("med", "structure", "Missing <html> root element.", <<>>,
                 "Ensure the document has a proper <!doctype html> and <html> root.",
                 None, None, <<>>)>>
    ELSE IF IsNone(html_lang) \/ Val(html_lang) = <<>>
    THEN <<Issue("high", "accessibility", "Missing lang attribute on <html>.", <<>>,
                 "Add a language, e.g. <html lang=\"en\">, to improve screen reader behavior.",
                 None, None, <<"html">>)>>
    ELSE <<>>

RuleTitle ==
    IF ~has_title \/ Strip(title_text) = <<>>
    THEN <<Issue("med", "content", "Missing or empty <title>.", <<>>,
                 "Add a descriptive page title (helps tabs and assistive tech).",
                 None, None, <<"title">>)>>
    ELSE <<>>

RuleViewport ==
    IF ~has_meta_viewport
    THEN <<Issue("high", "responsive",
                 "Missing <meta name=\"viewport\"> (mobile rendering may be broken).", <<>>,
                 "Add: <meta name=\"viewport\" content=\"width=device-width, initial-scale=1\">",
                 None, None, <<"meta[name=viewport]">>)>>
    ELSE <<>>

RuleMain ==
    IF ~has_main
    THEN <<Issue("med", "semantics", "No <main> landmark found.", <<>>,
                 "Wrap primary page content in <main> to improve navigation for assistive tech.",
                 None, None, <<"main">>)>>
    ELSE <<>>

DuplicateIdIssue(d) ==
    <<Issue("high", "semantics", "Duplicate id \"{}\" detected.", <<d[1]>>,
            "IDs must be unique. Rename one of the elements or remove the duplicate id.",
            Some(d[2]), Some(d[3]), <<"#">> \o d[1])>>

RuleDuplicateIds == FlatMap(DuplicateIdIssue, duplicate_ids)

\* sum(1 for lvl, *_ in p.heading_levels if lvl == 1)
H1Count == Cardinality({i \in 1..Len(heading_levels) : heading_levels[i][1] = 1})

RuleH1 ==
    IF H1Count = 0
    THEN <<Issue("med", "structure", "No <h1> found.", <<>>,
                 "Add a single <h1> that describes the page/section for clear hierarchy.",
                 None, None, <<"h1">>)>>
    ELSE IF H1Count > 1
    THEN <<Issue("low", "structure", "Multiple <h1> elements found ({}).",
                 <<Digits(H1Count)>>,
                 "Often best to keep one primary <h1>.", None, None, <<"h1">>)>>
    ELSE <<>>

HeadingJumpIssue(last, h) ==
    Issue("low", "structure", "Heading level jumps from h{} to h{}.",
          <<Digits(last), Digits(h[1])>>,
          "Avoid skipping heading levels; it can confuse outline navigation for assistive tech.",
          Some(h[2]), Some(h[3]), <<"h">> \o Digits(h[1]))

\* variant: last is set only when no jump was flagged
RECURSIVE HeadingJumpsNoReset(_, _)
HeadingJumpsNoReset(last, hs) ==
    IF hs = <<>> THEN <<>>
    ELSE IF IsSome(last) /\ Head(hs)[1] - Val(last) > 1
    THEN <<HeadingJumpIssue(Val(last), Head(hs))>> \o HeadingJumpsNoReset(last, Tail(hs))
    ELSE HeadingJumpsNoReset(Some(Head(hs)[1]), Tail(hs))

\* the loop of lines 286-298: last is None (the empty sequence) before the
\* first heading, and is set to the heading's level after every comparison
RECURSIVE HeadingJumps(_, _)
HeadingJumps(last, hs) ==
    IF hs = <<>> THEN <<>>
    ELSE (IF IsSome(last) /\ Head(hs)[1] - Val(last) > 1
          THEN <<HeadingJumpIssue(Val(last), Head(hs))>>
          ELSE <<>>)
         \o HeadingJumps(Some(Head(hs)[1]), Tail(hs))

RuleHeadingJumps == HeadingJumps(None, heading_levels)

ImageIssues(img) ==
    IF "alt" \notin DOMAIN img.attrs
    THEN <<Issue("high", "accessibility", "Image missing alt attribute.", <<>>,
                 "Add alt text. Use alt=\"\" for decorative images; meaningful text for informative images.", Some(img.line), Some(img.col), <<"img">>)>>
    ELSE IF Strip(Get(img.attrs, "alt")) = <<>>
    THEN <<Issue("low", "accessibility",
                 "Image has empty alt=\"\". Ensure this image is purely decorative.", <<>>,
                 "If the image conveys meaning, provide descriptive alt text. If decorative, alt=\"\" is correct.",
                 Some(img.line), Some(img.col), <<"img">>)>>
    ELSE <<>>

RuleImages == FlatMap(ImageIssues, images)

LinkIssues(link) ==
    LET text == DiscernibleText(link.text)
        href == Strip(Get(link.attrs, "href"))
        aria == Strip(Get(link.attrs, "aria-label"))
    IN (IF href = <<>>
        THEN <<Issue("med", "interaction", "Anchor <a> without href found.", <<>>,
                     "Use <button> for actions, or add a valid href for navigation links.",
                     Some(link.line), Some(link.col), <<"a">>)>>
        ELSE <<>>)
       \o
       (IF text = <<>> /\ aria = <<>>
        THEN <<Issue("high", "accessibility",
                     "Link has no discernible text (empty link).", <<>>,
                     "Add visible link text or aria-label.",
                     Some(link.line), Some(link.col), <<"a">>)>>
        ELSE <<>>)

SkipWord == <<"s", "k", "i", "p">>

\* variant: "skip" is looked for without lower()
IsSkipLinkCaseSensitive(link) ==
    LET text == DiscernibleText(link.text)
        href == Strip(Get(link.attrs, "href"))
        aria == Strip(Get(link.attrs, "aria-label"))
    IN /\ StartsWith(href, <<"#">>)
       /\ (Contains(text, SkipWord) \/ Contains(aria, SkipWord))

\* href.startswith("#") and ("skip" in text.lower() or "skip" in aria.lower())
IsSkipLink(link) ==
    LET text == DiscernibleText(link.text)
        href == Strip(Get(link.attrs, "href"))
        aria == Strip(Get(link.attrs, "aria-label"))
    IN /\ StartsWith(href, <<"#">>)
       /\ (Contains(Lower(text), SkipWord) \/ Contains(Lower(aria), SkipWord))

SkipDetected(ls) == \E i \in 1..Len(ls) : IsSkipLink(ls[i])

RuleLinks ==
    FlatMap(LinkIssues, links)
    \o (IF ~SkipDetected(links)
        THEN <<Issue("low", "accessibility",
                     "No obvious 'Skip to content' link detected.", <<>>,
                     "Consider adding a visually-hidden skip link for keyboard users.",
                     None, None, <<"a[href^=#]">>)>>
        ELSE <<>>)

ButtonIssues(btn) ==
    LET text == DiscernibleText(btn.text)
        aria == Strip(Get(btn.attrs, "aria-label"))
    IN (IF text = <<>> /\ aria = <<>>
        THEN <<Issue("high", "accessibility",
                     "Button has no discernible text (empty button).", <<>>,
                     "Add button text or aria-label.",
                     Some(btn.line), Some(btn.col), <<"button">>)>>
        ELSE <<>>)
       \o
       (IF btn.in_form /\ "type" \notin DOMAIN btn.attrs
        THEN <<Issue("low", "forms",
                     "Button inside form missing type attribute (defaults to submit).", <<>>,
                     "Add type=\"button\" for non-submit buttons to avoid accidental form submits.",
                     Some(btn.line), Some(btn.col), <<"button">>)>>
        ELSE <<>>)

RuleButtons == FlatMap(ButtonIssues, buttons)

InputIssues(inp) ==
    LET a == inp.attrs
        id == Strip(Get(a, "id"))
        aria_label == Strip(Get(a, "aria-label"))
        aria_labelledby == Strip(Get(a, "aria-labelledby"))
        has_explicit_label == id # <<>> /\ id \in DOMAIN labels_for
        has_implicit_label == inp.implicit_label
        placeholder == Strip(Get(a, "placeholder"))
    IN IF ~(has_explicit_label \/ has_implicit_label
            \/ aria_label # <<>> \/ aria_labelledby # <<>>)
       THEN <<Issue("high", "accessibility",
                    "{} appears to be missing an associated label.", <<inp.tag>>,
                    "Add a <label> (preferred) or aria-label/aria-labelledby. Placeholder is not a label.",
                    Some(inp.line), Some(inp.col), <<inp.tag>>)>>
       ELSE IF /\ placeholder # <<>>
               /\ ~(has_explicit_label \/ has_implicit_label)
               /\ ~(aria_label # <<>> \/ aria_labelledby # <<>>)
       THEN <<Issue("med", "forms",
                    "{} uses placeholder text but no real label.", <<inp.tag>>,
                    "Add a visible label; placeholders disappear on input and reduce accessibility.",
                    Some(inp.line), Some(inp.col), <<inp.tag>>)>>
       ELSE <<>>

RuleInputs == FlatMap(InputIssues, inputs)

\* lines 207-426 of audit(), in the order of the code
Rules ==
    RuleHtml \o RuleTitle \o RuleViewport \o RuleMain \o RuleDuplicateIds \o RuleH1
    \o RuleHeadingJumps \o RuleImages \o RuleLinks \o RuleButtons \o RuleInputs

-----------------------------------------------------------------------------
(* issues_to_markdown: the sort key and the stable sort.  Python compares  *)
(* the keys (order[severity], category, message) as tuples and the strings *)
(* by code point; KeyOf maps a finding to a sequence of numbers whose      *)
(* lexicographic order is that order.                                      *)

\* order = {"high": 0, "med": 1, "low": 2}; order.get(x.severity, 9)
SeverityOrder(sev) ==
    CASE sev = "high" -> 0 [] sev = "med" -> 1 [] sev = "low" -> 2 [] OTHER -> 9

\* the categories in string order
CategoryOrder == <<"accessibility", "content", "forms", "interaction",
                   "responsive", "semantics", "structure">>
CategoryRank(cat) == CHOOSE i \in 1..Len(CategoryOrder) : CategoryOrder[i] = cat

\* the characters of the model's strings in code point order
CodePointOrder == <<"\t", "\n", " ", "\"", "#", ")", "-", ".">> \o DigitChars
                  \o UpperChars \o <<"_">> \o LowerChars
CharRank(c) == CHOOSE i \in 1..Len(CodePointOrder) : CodePointOrder[i] = c
CharRanks(s) == [i \in 1..Len(s) |-> CharRank(s[i])]

\* the messages that start with fixed text, in string order
MessageOrder == <<
    "Anchor <a> without href found.",
    "Button has no discernible text (empty button).",
    "Button inside form missing type attribute (defaults to submit).",
    "Duplicate id \"{}\" detected.",
    "Failed to parse HTML: {}",
    "Heading level jumps from h{} to h{}.",
    "Image has empty alt=\"\". Ensure this image is purely decorative.",
    "Image missing alt attribute.",
    "Link has no discernible text (empty link).",
    "Missing <html> root element.",
    "Missing <meta name=\"viewport\"> (mobile rendering may be broken).",
    "Missing lang attribute on <html>.",
    "Missing or empty <title>.",
    "Multiple <h1> elements found ({}).",
    "No <h1> found.",
    "No <main> landmark found.",
    "No obvious 'Skip to content' link detected." >>
MessageRank(tpl) == CHOOSE i \in 1..Len(MessageOrder) : MessageOrder[i] = tpl

\* the messages that start with the control's tag: the tags and the two
\* continuations in string order (lower case sorts after upper case)
ControlOrder == <<"input", "select", "textarea">>
ControlRank(tag) == CHOOSE i \in 1..Len(ControlOrder) : ControlOrder[i] = tag
ControlMessageOrder == <<"{} appears to be missing an associated label.",
                         "{} uses placeholder text but no real label.">>

MessageKey(m) ==
    IF \E i \in 1..Len(ControlMessageOrder) : ControlMessageOrder[i] = m.tpl
    THEN << Len(MessageOrder) + ControlRank(m.arg[1]),
            CHOOSE i \in 1..Len(ControlMessageOrder) : ControlMessageOrder[i] = m.tpl >>
    ELSE <<MessageRank(m.tpl)>> \o
         (CASE m.tpl = "Duplicate id \"{}\" detected." ->
                   CharRanks(m.arg[1] \o <<"\"">>)
            [] m.tpl = "Multiple <h1> elements found ({})." ->
                   CharRanks(m.arg[1] \o <<")">>)
            [] m.tpl = "Heading level jumps from h{} to h{}." ->
                   CharRanks(m.arg[1] \o <<" ">> \o m.arg[2] \o <<".">>)
            [] OTHER -> <<>>)

\* key=lambda x: (order.get(x.severity, 9), x.category, x.message)
KeyOf(i) == <<SeverityOrder(i.severity), CategoryRank(i.category)>> \o MessageKey(i.message)

\* a < b for sequences of numbers (a proper prefix is smaller)
RECURSIVE LexLess(_, _)
LexLess(a, b) ==
    IF b = <<>> THEN FALSE
    ELSE IF a = <<>> THEN TRUE
    ELSE IF Head(a) # Head(b) THEN Head(a) < Head(b)
    ELSE LexLess(Tail(a), Tail(b))

\* variant: x goes before the first finding whose key is not smaller than x's
RECURSIVE InsertSortedBeforeTies(_, _)
InsertSortedBeforeTies(x, ys) ==
    IF ys = <<>> THEN <<x>>
    ELSE IF ~LexLess(KeyOf(Head(ys)), KeyOf(x)) THEN <<x>> \o ys
    ELSE <<Head(ys)>> \o InsertSortedBeforeTies(x, Tail(ys))

\* x goes before the first finding whose key is greater than x's
RECURSIVE InsertSorted(_, _)
InsertSorted(x, ys) ==
    IF ys = <<>> THEN <<x>>
    ELSE IF LexLess(KeyOf(x), KeyOf(Head(ys))) THEN <<x>> \o ys
    ELSE <<Head(ys)>> \o InsertSorted(x, Tail(ys))

\* sorted(xs, key=...): stable
RECURSIVE Sorted(_)
Sorted(xs) ==
    IF xs = <<>> THEN <<>>
    ELSE InsertSorted(xs[Len(xs)], Sorted(SubSeq(xs, 1, Len(xs) - 1)))

Line(kind, text, item) == [kind |-> kind, text |-> text, item |-> item]

\* - {elem}**{i.message}**{loc}\n  - Hint: {i.hint}
Bullet(i) ==
    Line("bullet", "", Some([elem |-> i.element, message |-> i.message,
                             loc |-> IF IsSome(i.line)
                                     THEN Some(<<Val(i.line),
                                                 IF IsSome(i.col) THEN Val(i.col) ELSE 0>>)
                                     ELSE None,
                             hint |-> i.hint]))

Bucket(xs, sev) == SelectSeq(xs, LAMBDA i : i.severity = sev)

Section(xs, sev, title) ==
    LET bucket == Bucket(xs, sev) IN
    IF bucket = <<>> THEN <<>>
    ELSE <<Line("heading", title, None)>>
         \o [k \in 1..Len(bucket) |-> Bullet(bucket[k])]
         \o <<Line("blank", "", None)>>

issues_to_markdown(xs) ==
    IF xs = <<>>
    THEN <<Line("text", "## UI Audit: No issues detected by the lightweight audit", None)>>
    ELSE <<Line("heading", "## UI Audit (lightweight, dependency-free)", None),
           Line("text", "> Note: This script flags common issues.", None)>>
         \o (LET issues_sorted == Sorted(xs) IN
                Section(issues_sorted, "high", "### High priority")
                \o Section(issues_sorted, "med", "### Medium priority")
                \o Section(issues_sorted, "low", "### Low priority"))

\* json.dumps([asdict(i) for i in issues], indent=2)
issues_to_json(xs) == xs

Formats == {"md", "json"}

Render(xs, format) ==
    IF format = "json"
    THEN [format |-> "json", body |-> issues_to_json(xs)]
    ELSE [format |-> "md", body |-> issues_to_markdown(xs)]

-----------------------------------------------------------------------------
(* main() and audit()                                                      *)

Init ==
    /\ pc = "read"
    /\ doc = <<>>
    /\ stack = <<>>
    /\ has_html = FALSE
    /\ html_lang = None
    /\ has_title = FALSE
    /\ title_text = <<>>
    /\ has_meta_viewport = FALSE
    /\ has_main = FALSE
    /\ ids = <<>>
    /\ duplicate_ids = <<>>
    /\ labels_for = <<>>
    /\ heading_levels = <<>>
    /\ current_link = None
    /\ links = <<>>
    /\ current_button = None
    /\ buttons = <<>>
    /\ inputs = <<>>
    /\ images = <<>>
    /\ issues = <<>>
    /\ output = None
    /\ exit_code = None

\* html = path.read_text(...) succeeds; audit() constructs the parser
ReadOk ==
    /\ pc = "read"
    /\ pc' = "feed"
    /\ UNCHANGED <<doc, walker, facts, issues, output, exit_code>>

\* path.read_text(...) raises: the error goes to stderr, main returns 2
ReadFails ==
    /\ pc = "read"
    /\ pc' = "exit"
    /\ exit_code' = Some(2)
    /\ UNCHANGED <<doc, walker, facts, issues, output>>

\* variant: the exception leaves audit() and main() ends with code 2
FeedRaisesExit2 ==
    /\ pc = "feed"
    /\ pc' = "exit"
    /\ exit_code' = Some(2)
    /\ UNCHANGED <<doc, walker, facts, issues, output>>

\* p.feed(html) or p.close() raises: audit returns the one finding
FeedRaises ==
    /\ pc = "feed"
    /\ issues' = <<ParseFailure>>
    /\ pc' = "print"
    /\ UNCHANGED <<doc, walker, facts, output, exit_code>>

\* p.feed(html); p.close() return
FeedDone ==
    /\ pc = "feed"
    /\ pc' = "rules"
    /\ UNCHANGED <<doc, walker, facts, issues, output, exit_code>>

\* the rule battery; audit returns issues
EvaluateRules ==
    /\ pc = "rules"
    /\ issues' = Rules
    /\ pc' = "print"
    /\ UNCHANGED <<doc, walker, facts, output, exit_code>>

\* print in the format asked for; return 0
PrintIssues ==
    /\ pc = "print"
    /\ \E format \in Formats : output' = Some(Render(issues, format))
    /\ exit_code' = Some(0)
    /\ pc' = "exit"
    /\ UNCHANGED <<doc, walker, facts, issues>>

\* one step of the program on documents of at most bound events over the
\* given open tags, close tags and text nodes
Step(starts, ends, texts, bound) ==
    \/ ReadOk
    \/ ReadFails
    \/ \E e \in starts : Len(doc) < bound /\ handle_starttag(e[1], e[2])
    \/ \E t \in ends : Len(doc) < bound /\ handle_endtag(t)
    \/ \E d \in texts : Len(doc) < bound /\ handle_data(d)
    \/ FeedRaises
    \/ FeedDone
    \/ EvaluateRules
    \/ PrintIssues

-----------------------------------------------------------------------------
(* Documents.                                                              *)
Attr(k, v) == <<k, Some(v)>>
Bare(k) == <<k, None>>

S_x == <<"x">>
S_x_padded == <<" ", "x", " ">>
S_y == <<"y">>
S_en == <<"e", "n">>
S_blank == <<" ">>
S_hash_main == <<"#", "m", "a", "i", "n">>
S_hash_main_padded == <<" ", "#", "m", "a", "i", "n">>
S_page == <<"/", "p">>
S_Skip == <<"S", "k", "i", "p">>
S_SKIP == <<"S", "K", "I", "P">>
S_Skip_to == <<"S", "k", "i", "p", " ", " ", "t", "o", "\n">>
S_Name == <<"N", "a", "m", "e">>
S_Viewport == <<"V", "i", "e", "w", "p", "o", "r", "t">>

\* a page of nested and unbalanced elements, links, images and a title
MixedStarts == { <<"div", <<>>>>,
                 <<"a", <<Attr("href", S_hash_main)>>>>,
                 <<"img", <<>>>>,
                 <<"title", <<>>>> }
MixedEnds == {"div", "a"}
MixedTexts == {S_Skip, S_blank}

Next == Step(MixedStarts, MixedEnds, MixedTexts, MaxEvents)
Spec == Init /\ [][Next]_vars

\* elements carrying ids: repeated, padded, empty and valueless
IdStarts == { <<"div", <<Attr("id", S_x)>>>>,
              <<"p", <<Attr("id", S_x_padded)>>>>,
              <<"span", <<Attr("id", S_y)>>>>,
              <<"div", <<Attr("id", <<>>)>>>>,
              <<"div", <<Bare("id")>>>> }
IdEnds == {"div"}
IdTexts == {S_x}

NextIds == Step(IdStarts, IdEnds, IdTexts, MaxEvents)
SpecIds == Init /\ [][NextIds]_vars

\* root elements with and without a language
HtmlStarts == { <<"html", <<Attr("lang", S_en)>>>>,
                <<"html", <<>>>>,
                <<"html", <<Attr("lang", <<>>)>>>>,
                <<"html", <<Bare("lang")>>>>,
                <<"html", <<Attr("lang", S_blank)>>>>,
                <<"body", <<>>>> }
HtmlEnds == {"html"}
HtmlTexts == {S_x}

NextHtml == Step(HtmlStarts, HtmlEnds, HtmlTexts, MaxEvents)
SpecHtml == Init /\ [][NextHtml]_vars

\* form controls and labels
FormStarts == { <<"input", <<Attr("placeholder", S_Name)>>>>,
                <<"input", <<Attr("id", S_x), Attr("placeholder", S_Name)>>>>,
                <<"input", <<Attr("aria-label", S_Name), Attr("placeholder", S_Name)>>>>,
                <<"select", <<Attr("placeholder", S_blank)>>>>,
                <<"label", <<Attr("for", S_x_padded)>>>>,
                <<"label", <<>>>> }
FormEnds == {"label"}
FormTexts == {S_Name}

NextForms == Step(FormStarts, FormEnds, FormTexts, MaxEvents)
SpecForms == Init /\ [][NextForms]_vars

\* anchors and buttons, closed, unclosed and nested
LinkStarts == { <<"a", <<Attr("href", S_hash_main)>>>>,
                <<"a", <<Attr("href", S_page), Attr("aria-label", S_Skip)>>>>,
                <<"a", <<Attr("href", S_hash_main_padded), Attr("aria-label", S_SKIP)>>>>,
                <<"button", <<>>>> }
LinkEnds == {"a", "button"}
LinkTexts == {S_Skip_to, S_blank}

NextLinks == Step(LinkStarts, LinkEnds, LinkTexts, MaxEvents)
SpecLinks == Init /\ [][NextLinks]_vars

\* headings
HeadingStarts == { <<"h1", <<>>>>, <<"h2", <<>>>>, <<"h3", <<>>>>,
                   <<"h4", <<>>>>, <<"h6", <<>>>> }
HeadingEnds == {"h1"}
HeadingTexts == {S_x}

NextHeadings == Step(HeadingStarts, HeadingEnds, HeadingTexts, MaxEvents)
SpecHeadings == Init /\ [][NextHeadings]_vars

\* every kind of element the walker records
AllStarts == { <<"html", <<Attr("lang", S_en)>>>>,
               <<"title", <<>>>>,
               <<"meta", <<Attr("name", S_Viewport)>>>>,
               <<"main", <<>>>>,
               <<"h1", <<>>>>,
               <<"img", <<Attr("alt", <<>>)>>>>,
               <<"a", <<Attr("href", S_page)>>>>,
               <<"form", <<>>>>,
               <<"button", <<>>>>,
               <<"input", <<Attr("id", S_x)>>>>,
               <<"label", <<Attr("for", S_x)>>>> }
AllEnds == {"a", "button", "title"}
AllTexts == {S_x}

NextWalk == Step(AllStarts, AllEnds, AllTexts, MaxWalk)
SpecWalk == Init /\ [][NextWalk]_vars

-----------------------------------------------------------------------------
(* Properties.  They are stated over doc, the events handled, and the      *)
(* findings, with the following vocabulary.                                *)

\* audit() has returned the findings of the rule battery
Evaluated ==
    /\ pc \in {"print", "exit"}
    /\ exit_code # Some(2)
    /\ issues # <<ParseFailure>>

IssuesWhere(P(_)) == {k \in 1..Len(issues) : P(issues[k])}

OpenTags == {i \in 1..Len(doc) : doc[i].kind = "start"}
OpenTagsOf(tag) == {i \in OpenTags : doc[i].tag = tag}
CloseTagsOf(tag) == {i \in 1..Len(doc) : doc[i].kind = "end" /\ doc[i].tag = tag}
AttrsAt(i) == AttrMap(doc[i].attrs)

\* the k-th smallest member of a set of numbers
RECURSIVE Ascending(_)
Ascending(S) ==
    IF S = {} THEN <<>>
    ELSE LET m == CHOOSE x \in S : \A y \in S : x <= y
         IN <<m>> \o Ascending(S \ {m})

-----------------------------------------------------------------------------
\* C1: a form control with no explicit label, not nested in a label, with no
\* aria-label and no aria-labelledby but with a non-empty placeholder gets
\* exactly one finding, the medium "forms" placeholder finding, and not the
\* high accessibility missing-label finding.
IsPlaceholderOnly(c) ==
    /\ Strip(Get(c.attrs, "id")) \notin DOMAIN labels_for
    /\ ~c.implicit_label
    /\ Strip(Get(c.attrs, "aria-label")) = <<>>
    /\ Strip(Get(c.attrs, "aria-labelledby")) = <<>>
    /\ Strip(Get(c.attrs, "placeholder")) # <<>>

IsLabelFindingFor(c, f) ==
    /\ f.line = Some(c.line)
    /\ f.element = <<c.tag>>
    /\ f.message.tpl \in {"{} appears to be missing an associated label.",
                          "{} uses placeholder text but no real label."}

C1_PlaceholderOnlyGetsMediumFormsFinding ==
    Evaluated =>
        \A k \in 1..Len(inputs) :
            IsPlaceholderOnly(inputs[k]) =>
                /\ Cardinality(IssuesWhere(LAMBDA f : IsLabelFindingFor(inputs[k], f))) = 1
                /\ \A n \in IssuesWhere(LAMBDA f : IsLabelFindingFor(inputs[k], f)) :
                       /\ issues[n].severity = "med"
                       /\ issues[n].category = "forms"
                       /\ issues[n].message.tpl = "{} uses placeholder text but no real label."

-----------------------------------------------------------------------------
\* C2: for every id value (trimmed, non-empty) that N open tags carry,
\* duplicate_ids holds exactly one entry per occurrence after the first, in
\* document order and with that occurrence's location, ids keeps the
\* location of the first occurrence, and audit emits exactly N-1 duplicate-id
\* findings for it, all of severity high, one per later occurrence.
IdAt(i) == Strip(Get(AttrsAt(i), "id"))
IdValues == {IdAt(i) : i \in OpenTags} \ {<<>>}
Occurrences(v) == Ascending({i \in OpenTags : IdAt(i) = v})

IsDuplicateFindingFor(v, f) ==
    f.message = [tpl |-> "Duplicate id \"{}\" detected.", arg |-> <<v>>]

DuplicateFindingsFor(v) ==
    SelectSeq(issues, LAMBDA f : IsDuplicateFindingFor(v, f))

C2_DuplicateIds ==
    /\ DOMAIN ids = IdValues
    /\ \A v \in IdValues :
        LET occ == Occurrences(v) IN
        /\ ids[v] = <<occ[1], 0>>
        /\ SelectSeq(duplicate_ids, LAMBDA d : d[1] = v)
             = [k \in 1..(Len(occ) - 1) |-> <<v, occ[k + 1], 0>>]
        /\ Evaluated =>
             /\ Len(DuplicateFindingsFor(v)) = Len(occ) - 1
             /\ \A k \in 1..(Len(occ) - 1) :
                  /\ DuplicateFindingsFor(v)[k].severity = "high"
                  /\ DuplicateFindingsFor(v)[k].line = Some(occ[k + 1])
    /\ \A k \in 1..Len(duplicate_ids) : duplicate_ids[k][1] \in IdValues

C2_Witness ==
    /\ Evaluated
    /\ \E v \in IdValues : Len(Occurrences(v)) >= 3 /\ Len(DuplicateFindingsFor(v)) = 2
    /\ \E i \in OpenTags : "id" \in DOMAIN AttrsAt(i) /\ IdAt(i) = <<>>

-----------------------------------------------------------------------------
\* C3: the "Missing lang attribute on <html>" finding is produced exactly once
\* when an <html> tag is present with a missing or empty lang, not at all for
\* an <html> tag with a non-empty lang such as "en", and never when there is
\* no <html> tag; then exactly one structure/med "Missing <html> root element"
\* finding is produced instead.  (Of several <html> tags the last one is the
\* one that counts.)
IsLangFinding(f) == f.message.tpl = "Missing lang attribute on <html>."
IsRootFinding(f) == f.message.tpl = "Missing <html> root element."
LangAt(i) == Get(AttrsAt(i), "lang")
LastOf(S) == CHOOSE i \in S : \A j \in S : j <= i

C3_LangFinding ==
    Evaluated =>
        LET htmls == OpenTagsOf("html")
            nLang == Cardinality(IssuesWhere(IsLangFinding))
            nRoot == Cardinality(IssuesWhere(IsRootFinding))
        IN /\ htmls = {} =>
                /\ nLang = 0
                /\ nRoot = 1
                /\ \A n \in IssuesWhere(IsRootFinding) :
                       issues[n].severity = "med" /\ issues[n].category = "structure"
           /\ htmls # {} =>
                /\ nRoot = 0
                /\ LangAt(LastOf(htmls)) = <<>> => nLang = 1
                /\ LangAt(LastOf(htmls)) # <<>> => nLang = 0

C3_Witness ==
    /\ Evaluated
    /\ \E i \in OpenTagsOf("html") : "lang" \in DOMAIN AttrsAt(i) /\ LangAt(i) = <<>>
    /\ \A i \in OpenTagsOf("html") : LangAt(i) = <<>>
    /\ Cardinality(OpenTagsOf("html")) >= 2
    /\ Cardinality(IssuesWhere(IsLangFinding)) = 1

-----------------------------------------------------------------------------
\* C4: when the parsing step raises, audit returns exactly one finding, of
\* severity high and category structure, without evaluating any rule, and
\* main prints it and returns 0; main returns 2 only when reading the file
\* fails, and then there are no findings and nothing is printed.
IsParseFailureResult(xs) ==
    /\ Len(xs) = 1
    /\ xs[1].severity = "high"
    /\ xs[1].category = "structure"

-----------------------------------------------------------------------------
\* C5 as stated: whatever the order in which the findings were emitted, the
\* final output is the same.
EmissionOrders(n) ==
    {f \in [1..n -> 1..n] : \A i, j \in 1..n : i # j => f[i] # f[j]}

Reordered(xs, f) == [k \in 1..Len(xs) |-> xs[f[k]]]

C5_OutputIndependentOfEmissionOrder ==
    (pc = "exit" /\ IsSome(output)) =>
        \A f \in EmissionOrders(Len(issues)) :
            Render(Reordered(issues, f), Val(output).format) = Val(output)

\* C5 as amended: the Markdown output lists the findings by (severity,
\* category, message), and findings with the same key in the order in which
\* they were emitted; the JSON output lists them in the order of emission.
KeyLess(x, y) == LexLess(KeyOf(x), KeyOf(y))
SameKey(x, y) == ~KeyLess(x, y) /\ ~KeyLess(y, x)

\* the place of the i-th emitted finding in the Markdown output
PlaceOf(i) ==
    1 + Cardinality({j \in 1..Len(issues) :
                        \/ KeyLess(issues[j], issues[i])
                        \/ (SameKey(issues[j], issues[i]) /\ j < i)})

BulletsOf(body) == SelectSeq(body, LAMBDA l : l.kind = "bullet")

C5_SortedByKeyTiesInEmissionOrder ==
    (pc = "exit" /\ IsSome(output)) =>
        /\ Val(output).format = "json" => Val(output).body = issues
        /\ Val(output).format = "md" =>
             /\ Len(BulletsOf(Val(output).body)) = Len(issues)
             /\ \A i \in 1..Len(issues) :
                    BulletsOf(Val(output).body)[PlaceOf(i)] = Bullet(issues[i])

C5_Witness ==
    /\ pc = "exit"
    /\ IsSome(output)
    /\ Val(output).format = "md"
    /\ \E i, j \in 1..Len(issues) :
          /\ i < j
          /\ SameKey(issues[i], issues[j])
          /\ issues[i] # issues[j]
          /\ PlaceOf(j) = PlaceOf(i) + 1
    /\ \E i, j \in 1..Len(issues) : i < j /\ PlaceOf(j) < PlaceOf(i)

-----------------------------------------------------------------------------
\* C7: a close tag whose name no frame of the stack has leaves the stack
\* unchanged; otherwise the nearest frame with that name, scanning from the
\* top, and every frame above it are removed and the frames below are kept.
\* Every open and close event can be handled, whatever the stack, and the
\* walk can end with frames still open.
C7_CloseTagPopsToNearestMatch ==
    /\ [][(pc = "feed" /\ Len(doc') = Len(doc) + 1 /\ doc'[Len(doc')].kind = "end") =>
            LET t == doc'[Len(doc')].tag
                M == {i \in 1..Len(stack) : stack[i][1] = t}
            IN IF M = {} THEN stack' = stack
               ELSE \E i \in M :
                      /\ \A j \in M : j <= i
                      /\ Len(stack') = i - 1
                      /\ \A k \in 1..(i - 1) : stack'[k] = stack[k]]_vars
    /\ [](pc = "feed" =>
            /\ \A t \in MixedEnds : ENABLED handle_endtag(t)
            /\ \A e \in MixedStarts : ENABLED handle_starttag(e[1], e[2])
            /\ ENABLED FeedDone)

C7_Witness ==
    /\ Evaluated
    /\ Len(doc) = 4
    /\ doc[1] = StartEv("div", <<>>)
    /\ doc[2] = StartEv("div", <<>>)
    /\ doc[3] = StartEv("img", <<>>)
    /\ doc[4] = EndEv("div")
    /\ Len(stack) = 1

-----------------------------------------------------------------------------
(* Anchors and buttons as the document shows them: a close tag at j        *)
(* finalizes the element opened at i when i is the last open tag of that   *)
(* name before j and no close tag of that name lies between them.          *)
ClosedPairs(tag) ==
    {p \in OpenTagsOf(tag) \X CloseTagsOf(tag) :
        /\ p[1] < p[2]
        /\ \A k \in OpenTagsOf(tag) \cup CloseTagsOf(tag) : ~(p[1] < k /\ k < p[2])}

\* the pairs in the order of their close tags
PairsInOrder(tag) ==
    LET pairs == ClosedPairs(tag)
        closes == Ascending({p[2] : p \in pairs})
    IN [n \in 1..Len(closes) |-> CHOOSE p \in pairs : p[2] = closes[n]]

\* the text nodes strictly between events i and j, each trimmed and preceded
\* by one space, the blank ones left out
RECURSIVE TextBetween(_, _)
TextBetween(i, j) ==
    IF i + 1 >= j THEN <<>>
    ELSE TextBetween(i, j - 1)
         \o (IF doc[j - 1].kind = "data" /\ Strip(doc[j - 1].data) # <<>>
             THEN <<" ">> \o Strip(doc[j - 1].data)
             ELSE <<>>)

\* the text nodes strictly between events i and j as they are, each preceded
\* by one space
RECURSIVE RawTextBetween(_, _)
RawTextBetween(i, j) ==
    IF i + 1 >= j THEN <<>>
    ELSE RawTextBetween(i, j - 1)
         \o (IF doc[j - 1].kind = "data" THEN <<" ">> \o doc[j - 1].data ELSE <<>>)

RecordsMatch(records, tag) ==
    LET pairs == PairsInOrder(tag) IN
    /\ Len(records) = Len(pairs)
    /\ \A n \in 1..Len(pairs) :
         /\ records[n].line = pairs[n][1]
         /\ records[n].attrs = AttrsAt(pairs[n][1])
         /\ records[n].text = TextBetween(pairs[n][1], pairs[n][2])

-----------------------------------------------------------------------------
\* C6: the low "no skip link" finding is emitted exactly once when no anchor
\* of the document has an href starting with '#' together with text or an
\* aria-label containing "skip" in any case, and not at all when one anchor
\* has; it is never emitted twice.
IsSkipFinding(f) == f.message.tpl = "No obvious 'Skip to content' link detected."

IsSkipAnchor(p) ==
    /\ StartsWith(Strip(Get(AttrsAt(p[1]), "href")), <<"#">>)
    /\ \/ Contains(Lower(RawTextBetween(p[1], p[2])), SkipWord)
       \/ Contains(Lower(Get(AttrsAt(p[1]), "aria-label")), SkipWord)

C6_SkipLinkFinding ==
    Evaluated =>
        /\ Cardinality(IssuesWhere(IsSkipFinding))
             = (IF \E p \in ClosedPairs("a") : IsSkipAnchor(p) THEN 0 ELSE 1)
        /\ \A n \in IssuesWhere(IsSkipFinding) :
             issues[n].severity = "low" /\ issues[n].category = "accessibility"

C6_Witness ==
    /\ Evaluated
    /\ Cardinality(OpenTagsOf("a")) >= 2
    /\ \E p \in ClosedPairs("a") :
          /\ IsSkipAnchor(p)
          /\ "aria-label" \notin DOMAIN AttrsAt(p[1])
    /\ IssuesWhere(IsSkipFinding) = {}

-----------------------------------------------------------------------------
\* C8: a record is appended to links (buttons) only by a closing a (button)
\* tag while a record is pending, one per such close tag; an a (button) that
\* opens while one is pending replaces it, and the outer one is never
\* recorded.  So the recorded links are never more than the closing a tags
\* nor more than the opening a tags, and each recorded text is the text seen
\* between the record's open tag and the close tag that finalized it.
C8_RecordsFinalizedAtCloseTag ==
    /\ [](/\ RecordsMatch(links, "a")
          /\ RecordsMatch(buttons, "button")
          /\ Len(links) <= Cardinality(CloseTagsOf("a"))
          /\ Len(links) <= Cardinality(OpenTagsOf("a"))
          /\ Len(buttons) <= Cardinality(CloseTagsOf("button"))
          /\ Len(buttons) <= Cardinality(OpenTagsOf("button")))
    /\ [][/\ links' # links =>
                /\ Len(doc') = Len(doc) + 1
                /\ doc'[Len(doc')] = EndEv("a")
                /\ IsSome(current_link)
                /\ links' = Append(links, Val(current_link))
                /\ current_link' = None
          /\ buttons' # buttons =>
                /\ Len(doc') = Len(doc) + 1
                /\ doc'[Len(doc')] = EndEv("button")
                /\ IsSome(current_button)
                /\ buttons' = Append(buttons, Val(current_button))
                /\ current_button' = None
          /\ (Len(doc') = Len(doc) + 1 /\ doc'[Len(doc')].kind = "start"
                /\ doc'[Len(doc')].tag = "a") =>
                /\ IsSome(current_link')
                /\ Val(current_link').line = Len(doc')
                /\ Val(current_link').text = <<>>]_vars

C8_Witness ==
    /\ Len(doc) = 4
    /\ doc[1].kind = "start" /\ doc[1].tag = "a"
    /\ doc[2].kind = "data" /\ Strip(doc[2].data) # <<>>
    /\ doc[3].kind = "start" /\ doc[3].tag = "a"
    /\ doc[4] = EndEv("a")
    /\ Len(links) = 1
    /\ links[1].line = 3
    /\ links[1].text = <<>>
    /\ IsNone(current_link)

-----------------------------------------------------------------------------
\* C9: audit emits one heading-jump finding, referencing the later heading,
\* for each pair of consecutive headings in document order whose level
\* increases by more than 1, and no other.
IsJumpFinding(f) == f.message.tpl = "Heading level jumps from h{} to h{}."

HeadingPositions == Ascending({i \in OpenTags : IsHeading(doc[i].tag)})
LevelAt(i) == HeadingLevel(doc[i].tag)

JumpPlaces ==
    Ascending({k \in 2..Len(HeadingPositions) :
                  LevelAt(HeadingPositions[k]) - LevelAt(HeadingPositions[k - 1]) > 1})

C9_HeadingJumps ==
    Evaluated =>
        LET jumps == SelectSeq(issues, IsJumpFinding) IN
        /\ Len(jumps) = Len(JumpPlaces)
        /\ \A n \in 1..Len(JumpPlaces) :
             LET later == HeadingPositions[JumpPlaces[n]]
                 earlier == HeadingPositions[JumpPlaces[n] - 1]
             IN /\ jumps[n].line = Some(later)
                /\ jumps[n].element = <<"h">> \o Digits(LevelAt(later))
                /\ jumps[n].message.arg = <<Digits(LevelAt(earlier)), Digits(LevelAt(later))>>
                /\ jumps[n].severity = "low"
                /\ jumps[n].category = "structure"

C9_Witness ==
    /\ Evaluated
    /\ Len(HeadingPositions) = 3
    /\ LevelAt(HeadingPositions[1]) = 1
    /\ LevelAt(HeadingPositions[2]) = 3
    /\ LevelAt(HeadingPositions[3]) = 6
    /\ Len(SelectSeq(issues, IsJumpFinding)) = 2

-----------------------------------------------------------------------------
\* C10: across every parse event each of headings, images, links, buttons,
\* form controls and duplicate_ids keeps its earlier entries, in order; no key
\* leaves ids or labels_for; has_html, has_title, has_meta_viewport and
\* has_main never go from true to false.  After the walk, and so during rule
\* evaluation, the facts do not change.
IsPrefix(a, b) == Len(a) <= Len(b) /\ SubSeq(b, 1, Len(a)) = a

=============================================================================
